---------------------------- MODULE Spec2Model ----------------------------
(***************************************************************************)
(* A model of create-akos (src/lib/base.js): the placeholder substitution  *)
(* replaceTemplate, the variable collection askForVariable, the file walk  *)
(* processFiles, the target-directory validation getTargetDirectory and    *)
(* the registry lookup getPackageInfo / downloadBoilerplate.               *)
(*                                                                         *)
(* Strings are sequences of one-character strings, so that the regular     *)
(* expression of replaceTemplate is modelled as the scanner it is.         *)
(***************************************************************************)
EXTENDS Integers, Sequences, FiniteSets, TLC

VARIABLES
  rtContent,  \* replaceTemplate: the `content` argument
  rtScope,    \* replaceTemplate: the `scope` argument
  rtOut,      \* the result of the first application
  rtOut2,     \* the result of applying it again to rtOut
  rtPc,       \* "input" | "once" | "twice"
  log,        \* this.log: the messages written so far, oldest first
  avTargetDir,  \* askForVariable: the targetDir argument
  avLoad,     \* what require(templateDir) (and calling it) does: "ok" | "notFound" | "error"
  avQuestions,  \* the loaded questions, in Object.keys order
  avSilent,   \* this.argv.silent
  avPc,       \* "idle" | "prompting" | "returned"
  avPrompted, \* the questions handed to inquirer.prompt
  avResult,   \* the scope askForVariable resolved to
  pfTemplate, \* processFiles: the files under templateDir/boilerplate, in glob order
  pfPc,       \* "start" | "walk" | "done"
  pfLocals,   \* const locals
  pfFiles,    \* const files
  pfIdx,      \* the index of the next file of files.forEach
  pfDest,     \* the files under targetDir: path |-> bytes
  pfWrites,   \* every fs.writeFileSync so far: [from, to, bytes]
  pfReturned, \* the value processFiles returned
  tdFs,       \* getTargetDirectory: the file system, path |-> "file" | "dir"
  tdForce,    \* this.argv.force
  tdDir,      \* this.argv._[0] || this.argv.dir || ''
  tdPc,       \* "start" | "prompting" | "returned"
  tdTargetDir,  \* let targetDir
  tdPrompts,  \* the calls of this.inquirer.prompt
  tdAttempts, \* the answers the prompt has rejected
  tdCalls,    \* every call of validate: what it was given and what it said
  piPkgName,  \* getPackageInfo: the pkgName argument
  piWithFallback,  \* the withFallback argument
  piCaller,   \* who calls getPackageInfo: "direct" | "downloadBoilerplate"
  piReply,    \* what the registry request is going to do
  piLocal,    \* the packages whose package.json can be required
  piPc,       \* "idle" | "fetching" | "returned" | "thrown"
  piResult,   \* what getPackageInfo returned or threw
  piRequired, \* the modules getPackageInfo required
  dlPc,       \* downloadBoilerplate: "idle" | "waiting" | "purged" | "downloaded" | "returned" | "thrown"
  dlSaveDir,  \* the state of saveDir: "stale" | "absent" | "extracted"
  dlRequests  \* every this.curl so far

rtVars == <<rtContent, rtScope, rtOut, rtOut2, rtPc>>
avVars == <<avTargetDir, avLoad, avQuestions, avSilent, avPc, avPrompted, avResult>>
pfVars == <<pfTemplate, pfPc, pfLocals, pfFiles, pfIdx, pfDest, pfWrites, pfReturned>>
tdVars == <<tdFs, tdForce, tdDir, tdPc, tdTargetDir, tdPrompts, tdAttempts, tdCalls>>
piVars == <<piPkgName, piWithFallback, piCaller, piReply, piLocal, piPc, piResult,
            piRequired, dlPc, dlSaveDir, dlRequests>>
vars == <<rtVars, log, avVars, pfVars, tdVars, piVars>>

\* the parts of the program a specification does not exercise stay as they are
AVOff ==
  /\ avTargetDir = <<>>
  /\ avLoad = "ok"
  /\ avQuestions = <<>>
  /\ avSilent = FALSE
  /\ avPc = "off"
  /\ avPrompted = <<>>
  /\ avResult = << >>

PFOff ==
  /\ pfTemplate = <<>>
  /\ pfPc = "off"
  /\ pfLocals = << >>
  /\ pfFiles = <<>>
  /\ pfIdx = 0
  /\ pfDest = << >>
  /\ pfWrites = <<>>
  /\ pfReturned = <<>>

TDOff ==
  /\ tdFs = << >>
  /\ tdForce = FALSE
  /\ tdDir = <<>>
  /\ tdPc = "off"
  /\ tdTargetDir = <<>>
  /\ tdPrompts = 0
  /\ tdAttempts = 0
  /\ tdCalls = <<>>

PIOff ==
  /\ piPkgName = <<>>
  /\ piWithFallback = FALSE
  /\ piCaller = "none"
  /\ piReply = [kind |-> "none", status |-> 0]
  /\ piLocal = {}
  /\ piPc = "off"
  /\ piResult = [from |-> "none", name |-> <<>>]
  /\ piRequired = <<>>
  /\ dlPc = "off"
  /\ dlSaveDir = "absent"
  /\ dlRequests = <<>>

RTOff ==
  /\ rtContent = <<>> /\ rtScope = << >> /\ rtOut = <<>> /\ rtOut2 = <<>>
  /\ rtPc = "off"

-----------------------------------------------------------------------------
(* Characters                                                              *)

BS == "\\"

\* \w of the regular expression: [A-Za-z0-9_]
WordChar ==
  { "a","b","c","d","e","f","g","h","i","j","k","l","m","n","o","p","q","r",
    "s","t","u","v","w","x","y","z",
    "A","B","C","D","E","F","G","H","I","J","K","L","M","N","O","P","Q","R",
    "S","T","U","V","W","X","Y","Z",
    "0","1","2","3","4","5","6","7","8","9","_" }

RECURSIVE SkipSpaces(_, _)
\* ` *` of the regular expression, greedy: the index after the spaces at j
SkipSpaces(s, j) ==
  IF j <= Len(s) /\ s[j] = " " THEN SkipSpaces(s, j + 1) ELSE j

RECURSIVE SkipWord(_, _)
\* `\w+` of the regular expression, greedy: the index after the word at j
SkipWord(s, j) ==
  IF j <= Len(s) /\ s[j] \in WordChar THEN SkipWord(s, j + 1) ELSE j

NoMatch == [ok |-> FALSE, skip |-> FALSE, end |-> 0, key |-> <<>>]

\* `{{ *(\w+) *}}` at index j of s
MatchBody(s, j) ==
  LET b == SkipSpaces(s, j + 2)
      c == SkipWord(s, b)
      d == SkipSpaces(s, c)
  IN  IF /\ j + 1 <= Len(s) /\ s[j] = "{" /\ s[j + 1] = "{"
         /\ c > b
         /\ d + 1 <= Len(s) /\ s[d] = "}" /\ s[d + 1] = "}"
      THEN [ok |-> TRUE, skip |-> FALSE, end |-> d + 2, key |-> SubSeq(s, b, c - 1)]
      ELSE NoMatch

\* `(\\)?{{ *(\w+) *}}` at index i of s: the optional group is tried first
MatchAt(s, i) ==
  IF i <= Len(s) /\ s[i] = BS /\ MatchBody(s, i + 1).ok
  THEN [MatchBody(s, i + 1) EXCEPT !.skip = TRUE]
  ELSE MatchBody(s, i)

\* Replacement with a fault: a missing key is replaced by the empty string
ReplacementMissingEmpty(s, scope, i, m) ==
  IF m.skip
  THEN SubSeq(s, i + 1, m.end - 1)
  ELSE IF m.key \in DOMAIN scope THEN scope[m.key] ELSE <<>>

\* Replacement with a fault: an escaped placeholder is substituted like any other
ReplacementIgnoreSkip(s, scope, i, m) ==
  IF m.key \in DOMAIN scope THEN scope[m.key] ELSE SubSeq(s, i, m.end - 1)

\* the replacer callback: block = s[i .. m.end-1]
Replacement(s, scope, i, m) ==
  IF m.skip
  THEN SubSeq(s, i + 1, m.end - 1)
  ELSE IF m.key \in DOMAIN scope THEN scope[m.key] ELSE SubSeq(s, i, m.end - 1)

RECURSIVE ReplaceFrom(_, _, _)
\* String.prototype.replace with the g flag: leftmost matches, left to right,
\* the replacement text is not scanned again
ReplaceFrom(s, scope, i) ==
  IF i > Len(s) THEN <<>>
  ELSE LET m == MatchAt(s, i)
       IN  IF m.ok
           THEN Replacement(s, scope, i, m) \o ReplaceFrom(s, scope, m.end)
           ELSE <<s[i]>> \o ReplaceFrom(s, scope, i + 1)

replaceTemplate(content, scope) == ReplaceFrom(content, scope, 1)

RECURSIVE Flatten(_)
\* the concatenation of a sequence of strings
Flatten(ss) == IF ss = <<>> THEN <<>> ELSE Head(ss) \o Flatten(Tail(ss))

-----------------------------------------------------------------------------
(* askForVariable                                                          *)

EmptyScope == << >>

\* a JavaScript value: undefined, or a string
Undefined == [t |-> "undefined", s |-> <<>>]
Str(s) == [t |-> "string", s |-> s]

\* `v || ''`
OrEmpty(v) == IF v.t = "undefined" \/ v.s = <<>> THEN <<>> ELSE v.s

\* scope.k as a default function reads it, in a string concatenation
Get(scope, k) == IF k \in DOMAIN scope THEN scope[k] ELSE <<"u", "n", "d", "e", "f", "i", "n", "e", "d">>

\* the default functions a template may declare
\*   "aPlusX":  scope => scope.a + "x"
\*   "nothing": scope => undefined
DefaultFns == { "aPlusX", "nothing" }
CallDefault(fn, scope) ==
  IF fn = "aPlusX" THEN Str(Get(scope, <<"a">>) \o <<"x">>) ELSE Undefined

\* the filter functions a template may declare
\*   "bang": v => v + "!"
\*   "drop": v => undefined
FilterFns == { "bang", "drop" }
CallFilter(fn, v) ==
  IF fn = "bang" THEN Str(v \o <<"!">>) ELSE Undefined

\* a question: default is [kind |-> "none"], [kind |-> "lit", val |-> string]
\* or [kind |-> "fn", val |-> name]; filter is "none" or the name of a filter
NoDefault == [kind |-> "none", val |-> <<>>]
Lit(s) == [kind |-> "lit", val |-> s]
Fn(f) == [kind |-> "fn", val |-> f]
Question(k, d, f) == [key |-> k, default |-> d, filter |-> f]

RECURSIVE LastSlash(_, _)
LastSlash(p, i) == IF i = 0 \/ p[i] = "/" THEN i ELSE LastSlash(p, i - 1)

\* path.basename(p), for a path that does not end in a slash
Basename(p) == SubSeq(p, LastSlash(p, Len(p)) + 1, Len(p))

\* s.replace(/^egg-/, '')
StripEggPrefix(s) ==
  IF Len(s) >= 4 /\ SubSeq(s, 1, 4) = <<"e", "g", "g", "-">> THEN SubSeq(s, 5, Len(s)) ELSE s

\* `!question.default`
DefaultIsFalsy(d) == d.kind = "none" \/ (d.kind = "lit" /\ d.val = <<>>)

\* use target dir name as `name` default
InjectNameDefault(questions, targetDir) ==
  [i \in DOMAIN questions |->
     IF questions[i].key = <<"n", "a", "m", "e">> /\ DefaultIsFalsy(questions[i].default)
     THEN [questions[i] EXCEPT !.default = Lit(StripEggPrefix(Basename(targetDir)))]
     ELSE questions[i]]

\* SilentStep with a fault: the default function does not see the earlier answers
SilentStepNoScope(result, q) ==
  LET d == IF q.default.kind = "fn" THEN OrEmpty(CallDefault(q.default.val, EmptyScope))
           ELSE IF q.default.kind = "lit" THEN OrEmpty(Str(q.default.val))
           ELSE <<>>
      v == IF q.filter # "none" THEN OrEmpty(CallFilter(q.filter, d)) ELSE d
  IN  [k \in DOMAIN result \cup {q.key} |-> IF k = q.key THEN v ELSE result[k]]

\* one step of keys.reduce in silent mode
SilentStep(result, q) ==
  LET d == IF q.default.kind = "fn" THEN OrEmpty(CallDefault(q.default.val, result))
           ELSE IF q.default.kind = "lit" THEN OrEmpty(Str(q.default.val))
           ELSE <<>>
      v == IF q.filter # "none" THEN OrEmpty(CallFilter(q.filter, d)) ELSE d
  IN  [k \in DOMAIN result \cup {q.key} |-> IF k = q.key THEN v ELSE result[k]]

RECURSIVE SilentReduce(_, _, _)
\* keys.reduce(..., {}) from question i on
SilentReduce(questions, i, result) ==
  IF i > Len(questions) THEN result
  ELSE SilentReduce(questions, i + 1, SilentStep(result, questions[i]))

\* LoadFailureWarns with a fault: every failure is logged
LoadFailureWarnsAlways(load) == TRUE

\* `err.code !== 'MODULE_NOT_FOUND'`
LoadFailureWarns(load) == load # "notFound"

\* the values a user may answer with
AnswerValues == { <<"v">>, <<"w">> }

Keys(questions) == { questions[i].key : i \in DOMAIN questions }

\* the catch branch: loading the questions threw
AskForVariableLoadFailed ==
  /\ avPc = "idle"
  /\ avLoad # "ok"
  /\ log' = IF LoadFailureWarns(avLoad)
            THEN Append(log, "load boilerplate config got trouble")
            ELSE log
  /\ avResult' = EmptyScope
  /\ avPc' = "returned"
  /\ UNCHANGED <<avTargetDir, avLoad, avQuestions, avSilent, avPrompted, rtVars, pfVars, tdVars, piVars>>

\* the questions loaded and --silent is set
AskForVariableSilent ==
  /\ avPc = "idle"
  /\ avLoad = "ok"
  /\ avSilent
  /\ avQuestions' = InjectNameDefault(avQuestions, avTargetDir)
  /\ avResult' = SilentReduce(avQuestions', 1, EmptyScope)
  /\ log' = log \o <<"collecting boilerplate config", "use default due to --silent">>
  /\ avPc' = "returned"
  /\ UNCHANGED <<avTargetDir, avLoad, avSilent, avPrompted, rtVars, pfVars, tdVars, piVars>>

\* the questions loaded and --silent is not set: up to `await inquirer.prompt`
AskForVariablePrompt ==
  /\ avPc = "idle"
  /\ avLoad = "ok"
  /\ ~avSilent
  /\ avQuestions' = InjectNameDefault(avQuestions, avTargetDir)
  /\ avPrompted' = [i \in DOMAIN avQuestions |-> avQuestions'[i].key]
  /\ log' = Append(log, "collecting boilerplate config")
  /\ avPc' = "prompting"
  /\ UNCHANGED <<avTargetDir, avLoad, avSilent, avResult, rtVars, pfVars, tdVars, piVars>>

\* inquirer.prompt resolves with one answer per question
AskForVariableAnswered ==
  /\ avPc = "prompting"
  /\ \E answers \in [Keys(avQuestions) -> AnswerValues] : avResult' = answers
  /\ avPc' = "returned"
  /\ UNCHANGED <<log, avTargetDir, avLoad, avQuestions, avSilent, avPrompted, rtVars, pfVars, tdVars, piVars>>

-----------------------------------------------------------------------------
(* askForVariable called on bounded question sets                          *)

MaxQuestions == 2

AVKeys == { <<"a">>, <<"b">>, <<"n", "a", "m", "e">> }
AVDefaults == { NoDefault, Lit(<<"b", "a", "s", "e">>), Fn("aPlusX"), Fn("nothing") }
AVFilters == { "none", "bang", "drop" }
AVQuestion == { Question(k, d, f) : k \in AVKeys, d \in AVDefaults, f \in AVFilters }

\* the keys of an object are distinct
DistinctKeys(qs) == \A i, j \in DOMAIN qs : i # j => qs[i].key # qs[j].key

AVQuestionSets ==
  { qs \in UNION { [1..n -> AVQuestion] : n \in 0..MaxQuestions } : DistinctKeys(qs) }

TargetDirs == { <<"/", "w", "/", "e", "g", "g", "-", "a", "p", "p">>, <<"/", "w", "/", "a", "p", "p">> }

AVInit ==
  /\ RTOff
  /\ log = <<>>
  /\ avTargetDir \in TargetDirs
  /\ avLoad \in { "ok", "notFound", "error" }
  /\ avQuestions \in AVQuestionSets
  /\ avSilent \in BOOLEAN
  /\ avPc = "idle"
  /\ avPrompted = <<>>
  /\ avResult = EmptyScope
  /\ PFOff
  /\ TDOff
  /\ PIOff

AVNext ==
  \/ AskForVariableLoadFailed
  \/ AskForVariableSilent
  \/ AskForVariablePrompt
  \/ AskForVariableAnswered

SpecAV == AVInit /\ [][AVNext]_vars

\* the questions before question i
Earlier(questions, i) == { questions[j].key : j \in 1..(i - 1) }

Restrict(f, ks) == [k \in ks |-> f[k]]

\* C7: in silent mode nothing is prompted and the scope is computed question by
\* question in declaration order: the value of a question is its function
\* default applied to the scope of the earlier questions, or its literal
\* default, then passed through its filter if it has one, and the empty string
\* when there is no default or no result.
C7_SilentDefaults ==
  (avPc = "returned" /\ avLoad = "ok" /\ avSilent) =>
    /\ avPrompted = <<>>
    /\ DOMAIN avResult = Keys(avQuestions)
    /\ \A i \in DOMAIN avQuestions :
         LET q == avQuestions[i]
             earlier == Restrict(avResult, Earlier(avQuestions, i))
             d == CASE q.default.kind = "fn" ->
                         LET r == CallDefault(q.default.val, earlier)
                         IN  IF r.t = "undefined" THEN <<>> ELSE r.s
                    [] q.default.kind = "lit" -> q.default.val
                    [] OTHER -> <<>>
             v == IF q.filter = "none" THEN d
                  ELSE LET r == CallFilter(q.filter, d)
                       IN  IF r.t = "undefined" THEN <<>> ELSE r.s
         IN  avResult[q.key] = v

\* the example of the claim: a with default "base", then b with default
\* scope => scope.a + "x", resolved silently to {a: "base", b: "basex"}
C7_Witness ==
  /\ avPc = "returned" /\ avLoad = "ok" /\ avSilent
  /\ avQuestions = << Question(<<"a">>, Lit(<<"b", "a", "s", "e">>), "none"),
                      Question(<<"b">>, Fn("aPlusX"), "none") >>
  /\ avResult = [k \in { <<"a">>, <<"b">> } |-> IF k = <<"a">> THEN <<"b", "a", "s", "e">> ELSE <<"b", "a", "s", "e", "x">>]
  /\ avPrompted = <<>>

-----------------------------------------------------------------------------
(* replaceTemplate applied to bounded inputs                               *)

MaxChunks == 5

Chunks == { <<BS>>, <<"{", "{">>, <<"}", "}">>, <<" ">>, <<"x">> }

RTContents ==
  { Flatten(cs) : cs \in UNION { [1..n -> Chunks] : n \in 0..MaxChunks } }

RTKeys == { <<"x">>, <<"y">> }
RTValues == { <<"v">>, <<"{", "{", "y", "}", "}">> }
RTScopes == UNION { [ks -> RTValues] : ks \in SUBSET RTKeys }

RTInit ==
  /\ rtContent \in RTContents
  /\ rtScope \in RTScopes
  /\ rtOut = <<>>
  /\ rtOut2 = <<>>
  /\ rtPc = "input"
  /\ log = <<>>
  /\ AVOff
  /\ PFOff
  /\ TDOff
  /\ PIOff

RTApply ==
  /\ rtPc = "input"
  /\ rtOut' = replaceTemplate(rtContent, rtScope)
  /\ rtPc' = "once"
  /\ UNCHANGED <<rtContent, rtScope, rtOut2, log, avVars, pfVars, tdVars, piVars>>

RTApplyAgain ==
  /\ rtPc = "once"
  /\ rtOut2' = replaceTemplate(rtOut, rtScope)
  /\ rtPc' = "twice"
  /\ UNCHANGED <<rtContent, rtScope, rtOut, log, avVars, pfVars, tdVars, piVars>>

RTNext == RTApply \/ RTApplyAgain

SpecRT == RTInit /\ [][RTNext]_vars

-----------------------------------------------------------------------------
(* processFiles                                                            *)

\* this.fileMapping
FileMapping ==
  LET keys == { <<"g", "i", "t", "i", "g", "n", "o", "r", "e">>, <<"_", "g", "i", "t", "i", "g", "n", "o", "r", "e">>, <<"_", ".", "g", "i", "t", "i", "g", "n", "o", "r", "e">>, <<"_", "p", "a", "c", "k", "a", "g", "e", ".", "j", "s", "o", "n">>,
                <<"_", ".", "e", "s", "l", "i", "n", "t", "i", "g", "n", "o", "r", "e">>, <<"_", ".", "n", "p", "m", "i", "g", "n", "o", "r", "e">> }
  IN  [k \in keys |->
         CASE k = <<"_", "p", "a", "c", "k", "a", "g", "e", ".", "j", "s", "o", "n">> -> <<"p", "a", "c", "k", "a", "g", "e", ".", "j", "s", "o", "n">>
           [] k = <<"_", ".", "e", "s", "l", "i", "n", "t", "i", "g", "n", "o", "r", "e">> -> <<".", "e", "s", "l", "i", "n", "t", "i", "g", "n", "o", "r", "e">>
           [] k = <<"_", ".", "n", "p", "m", "i", "g", "n", "o", "r", "e">> -> <<".", "n", "p", "m", "i", "g", "n", "o", "r", "e">>
           [] OTHER -> <<".", "g", "i", "t", "i", "g", "n", "o", "r", "e">>]

\* this.fileMapping is an object literal: a property it does not define itself
\* is looked up on Object.prototype. The members a file name can hit, with the
\* text their toString() gives.
ObjectPrototype ==
  LET names == { <<"c", "o", "n", "s", "t", "r", "u", "c", "t", "o", "r">>, <<"t", "o", "S", "t", "r", "i", "n", "g">>, <<"v", "a", "l", "u", "e", "O", "f">>, <<"h", "a", "s", "O", "w", "n", "P", "r", "o", "p", "e", "r", "t", "y">> }
  IN  [k \in names |->
         IF k = <<"c", "o", "n", "s", "t", "r", "u", "c", "t", "o", "r">> THEN <<"f", "u", "n", "c", "t", "i", "o", "n", " ", "O", "b", "j", "e", "c", "t", "(", ")", " ", "{", " ", "[", "n", "a", "t", "i", "v", "e", " ", "c", "o", "d", "e", "]", " ", "}">>
         ELSE <<"f", "u", "n", "c", "t", "i", "o", "n", " ">> \o k \o <<"(", ")", " ", "{", " ", "[", "n", "a", "t", "i", "v", "e", " ", "c", "o", "d", "e", "]", " ", "}">>]

\* `this.fileMapping[file] || file`, as the string replaceTemplate makes of it
MappedName(file) ==
  IF file \in DOMAIN FileMapping THEN FileMapping[file]
  ELSE IF file \in DOMAIN ObjectPrototype THEN ObjectPrototype[file]
  ELSE file

\* path.join(dir, rel) for a normalized, non-empty relative path
JoinPath(dir, rel) == dir \o <<"/">> \o rel

\* path.join(targetDir, this.replaceTemplate(this.fileMapping[file] || file, locals))
DestPath(targetDir, file, locals) ==
  JoinPath(targetDir, replaceTemplate(MappedName(file), locals))

\* Bytes are one-character strings for ASCII, "00" for NUL and "FF" for a byte
\* that is not valid UTF-8; "FFFD" is the replacement character U+FFFD.
\* content.toString('utf8')
DecodeUtf8(bytes) ==
  [i \in DOMAIN bytes |-> IF bytes[i] = "FF" THEN "FFFD" ELSE bytes[i]]

\* the bytes fs.writeFileSync writes for a string
EncodeUtf8(str) ==
  Flatten([i \in DOMAIN str |->
             IF str[i] = "FFFD" THEN <<"EF", "BF", "BD">> ELSE <<str[i]>>])

\* FileResult with a fault: every file is substituted
FileResultAlwaysText(entry, locals) ==
  EncodeUtf8(replaceTemplate(DecodeUtf8(entry.bytes), locals))

\* `isTextSync(from, content) ? this.replaceTemplate(content.toString('utf8'), locals) : content`
\* entry.isText is what the classifier reports for the file
FileResult(entry, locals) ==
  IF entry.isText
  THEN EncodeUtf8(replaceTemplate(DecodeUtf8(entry.bytes), locals))
  ELSE entry.bytes

\* WriteFile with a fault: a file that exists is not overwritten
WriteFileKeep(dest, to, bytes) ==
  [p \in DOMAIN dest \cup {to} |-> IF p \in DOMAIN dest THEN dest[p] ELSE bytes]

\* mkdirp.sync(path.dirname(to)); fs.writeFileSync(to, result)
WriteFile(dest, to, bytes) ==
  [p \in DOMAIN dest \cup {to} |-> IF p = to THEN bytes ELSE dest[p]]

\* const locals = await this.askForVariable(...); const files = glob.sync(...)
ProcessFilesGlob ==
  /\ pfPc = "start"
  /\ avPc = "returned"
  /\ pfLocals' = avResult
  /\ pfFiles' = [i \in DOMAIN pfTemplate |-> pfTemplate[i].path]
  /\ pfIdx' = 1
  /\ pfPc' = "walk"
  /\ UNCHANGED <<pfTemplate, pfDest, pfWrites, pfReturned, log, rtVars, avVars, tdVars, piVars>>

\* one call of the files.forEach callback
ProcessFile ==
  /\ pfPc = "walk"
  /\ pfIdx <= Len(pfFiles)
  /\ LET file == pfFiles[pfIdx]
         entry == pfTemplate[pfIdx]
         to == DestPath(avTargetDir, file, pfLocals)
         result == FileResult(entry, pfLocals)
     IN  /\ log' = Append(log, "write to")
         /\ pfDest' = WriteFile(pfDest, to, result)
         /\ pfWrites' = Append(pfWrites, [from |-> file, to |-> to, bytes |-> result])
  /\ pfIdx' = pfIdx + 1
  /\ UNCHANGED <<pfTemplate, pfPc, pfLocals, pfFiles, pfReturned, rtVars, avVars, tdVars, piVars>>

\* return files
ProcessFilesReturn ==
  /\ pfPc = "walk"
  /\ pfIdx > Len(pfFiles)
  /\ pfReturned' = pfFiles
  /\ pfPc' = "done"
  /\ UNCHANGED <<pfTemplate, pfLocals, pfFiles, pfIdx, pfDest, pfWrites, log, rtVars, avVars, tdVars, piVars>>

-----------------------------------------------------------------------------
(* processFiles on bounded templates                                       *)

MaxFiles == 2

File(p, text, bytes) == [path |-> p, isText |-> text, bytes |-> bytes]

\* the files a template may hold, in the order glob lists them
FileUniverse ==
  << File(<<".", "g", "i", "t", "i", "g", "n", "o", "r", "e">>, TRUE, <<"d">>),
     File(<<"_", ".", "e", "s", "l", "i", "n", "t", "i", "g", "n", "o", "r", "e">>, TRUE, <<"e">>),
     File(<<"_", ".", "g", "i", "t", "i", "g", "n", "o", "r", "e">>, TRUE, <<"c">>),
     File(<<"_", ".", "n", "p", "m", "i", "g", "n", "o", "r", "e">>, TRUE, <<"n">>),
     File(<<"_", "g", "i", "t", "i", "g", "n", "o", "r", "e">>, TRUE, <<"b">>),
     File(<<"_", "p", "a", "c", "k", "a", "g", "e", ".", "j", "s", "o", "n">>, TRUE, <<"{", "{", " ", "n", "a", "m", "e", " ", "}", "}">>),
     File(<<"b", "a", "d", ".", "t", "x", "t">>, TRUE, <<"FF">> \o <<"{", "{", "x", "}", "}">>),
     File(<<"c", "o", "n", "s", "t", "r", "u", "c", "t", "o", "r">>, TRUE, <<"k">>),
     File(<<"g", "i", "t", "i", "g", "n", "o", "r", "e">>, TRUE, <<"a">>),
     File(<<"l", "o", "g", "o", ".", "p", "n", "g">>, FALSE, <<"00">> \o <<"{", "{", "x", "}", "}">>),
     File(<<"o", "n", "e", ".", "t", "x", "t">>, TRUE, <<"H", "e", "l", "l", "o", " ", "{", "{", " ", "x", " ", "}", "}">>),
     File(<<"p", "a", "c", "k", "a", "g", "e", ".", "j", "s", "o", "n">>, TRUE, <<"p">>),
     File(<<"s", "u", "b", "/", "_", "p", "a", "c", "k", "a", "g", "e", ".", "j", "s", "o", "n">>, TRUE, <<"s">>),
     File(<<"s", "u", "b", "/", "g", "i", "t", "i", "g", "n", "o", "r", "e">>, TRUE, <<"\\", "{", "{", "x", "}", "}">>),
     File(<<"{", "{", "x", "}", "}", ".", "t", "x", "t">>, TRUE, <<"t">>),
     File(<<"{", "{", "y", "}", "}", ".", "t", "x", "t">>, FALSE, <<"FF">>) >>

RECURSIVE Pick(_, _)
\* the files of FileUniverse at the indices ix, in order
Pick(ix, i) ==
  IF i > Len(FileUniverse) THEN <<>>
  ELSE (IF i \in ix THEN <<FileUniverse[i]>> ELSE <<>>) \o Pick(ix, i + 1)

Templates ==
  { Pick(ix, 1) : ix \in { ix \in SUBSET DOMAIN FileUniverse : Cardinality(ix) <= MaxFiles } }

PFQuestionSets ==
  { <<>>,
    << Question(<<"x">>, Lit(<<"v">>), "none") >>,
    << Question(<<"x">>, Lit(<<"v">>), "none"), Question(<<"y">>, Fn("nothing"), "bang") >>,
    << Question(<<"n", "a", "m", "e">>, NoDefault, "none") >> }

PFInit ==
  /\ RTOff
  /\ log = <<>>
  /\ avTargetDir \in TargetDirs
  /\ avLoad \in { "ok", "notFound", "error" }
  /\ avQuestions \in PFQuestionSets
  /\ avSilent \in BOOLEAN
  /\ avPc = "idle"
  /\ avPrompted = <<>>
  /\ avResult = EmptyScope
  /\ pfTemplate \in Templates
  /\ pfPc = "start"
  /\ pfLocals = EmptyScope
  /\ pfFiles = <<>>
  /\ pfIdx = 0
  /\ pfDest = << >>
  /\ pfWrites = <<>>
  /\ pfReturned = <<>>
  /\ TDOff
  /\ PIOff

PFNext ==
  \/ AskForVariableLoadFailed
  \/ AskForVariableSilent
  \/ AskForVariablePrompt
  \/ AskForVariableAnswered
  \/ ProcessFilesGlob
  \/ ProcessFile
  \/ ProcessFilesReturn

SpecPF == PFInit /\ [][PFNext]_vars

-----------------------------------------------------------------------------
(* getTargetDirectory                                                      *)

\* this.cwd
Cwd == <<"/", "w">>

\* path.dirname(p)
Dirname(p) == SubSeq(p, 1, LastSlash(p, Len(p)) - 1)

\* path.resolve(this.cwd, dir) for '', '.' and a name
Resolve(cwd, dir) ==
  IF dir = <<>> \/ dir = <<".">> THEN cwd ELSE cwd \o <<"/">> \o dir

\* fs.readdirSync(dir)
Readdir(fs, dir) ==
  { Basename(p) : p \in { q \in DOMAIN fs : Len(q) > Len(dir) /\ Dirname(q) = dir } }

\* mkdirp.sync(dir), for a dir whose parent exists
Mkdirp(fs, dir) ==
  [p \in DOMAIN fs \cup {dir} |-> IF p = dir THEN "dir" ELSE fs[p]]

\* `.filter(name => name[0] !== '.')`
NonHidden(names) == { n \in names : n[1] # "." }

\* Validate with a fault: --force is not looked at
ValidateNoForce(fs, dir, force) ==
  IF dir \notin DOMAIN fs
  THEN [ok |-> TRUE, msg |-> "", warn |-> FALSE, fs |-> Mkdirp(fs, dir)]
  ELSE IF fs[dir] # "dir"
  THEN [ok |-> FALSE, msg |-> "already exists as a file", warn |-> FALSE, fs |-> fs]
  ELSE IF NonHidden(Readdir(fs, dir)) # {}
  THEN [ok |-> FALSE, msg |-> "already exists and not empty", warn |-> FALSE, fs |-> fs]
  ELSE [ok |-> TRUE, msg |-> "", warn |-> FALSE, fs |-> fs]

\* const validate = dir => ...: ok is `=== true`, msg the string returned
\* otherwise, warn whether the override warning is logged, fs the file system
\* afterwards
Validate(fs, dir, force) ==
  IF dir \notin DOMAIN fs
  THEN [ok |-> TRUE, msg |-> "", warn |-> FALSE, fs |-> Mkdirp(fs, dir)]
  ELSE IF fs[dir] # "dir"
  THEN [ok |-> FALSE, msg |-> "already exists as a file", warn |-> FALSE, fs |-> fs]
  ELSE IF NonHidden(Readdir(fs, dir)) # {}
  THEN IF force
       THEN [ok |-> TRUE, msg |-> "", warn |-> TRUE, fs |-> fs]
       ELSE [ok |-> FALSE, msg |-> "already exists and not empty", warn |-> FALSE, fs |-> fs]
  ELSE [ok |-> TRUE, msg |-> "", warn |-> FALSE, fs |-> fs]

\* what a call of validate was given: the directory, what was there and the
\* entries of it that are not hidden; and what validate said
Call(fs, dir, v) ==
  [dir |-> dir,
   was |-> IF dir \in DOMAIN fs THEN fs[dir] ELSE "missing",
   visible |-> NonHidden(Readdir(fs, dir)),
   ok |-> v.ok]

ValidateLog(v) ==
  IF v.warn THEN <<"already exists and will be override due to --force">> ELSE <<>>

MaxAttempts == 2

\* getTargetDirectory up to its return or its `await this.inquirer.prompt`
GetTargetDirectory ==
  /\ tdPc = "start"
  /\ LET targetDir == Resolve(Cwd, tdDir)
         v == Validate(tdFs, targetDir, tdForce)
     IN  /\ tdFs' = v.fs
         /\ tdCalls' = Append(tdCalls, Call(tdFs, targetDir, v))
         /\ tdTargetDir' = targetDir
         /\ IF v.ok
            THEN /\ log' = log \o ValidateLog(v) \o <<"target dir is">>
                 /\ tdPrompts' = tdPrompts
                 /\ tdPc' = "returned"
            ELSE /\ log' = Append(log, v.msg)
                 /\ tdPrompts' = tdPrompts + 1
                 /\ tdPc' = "prompting"
  /\ UNCHANGED <<tdForce, tdDir, tdAttempts, rtVars, avVars, pfVars, piVars>>

\* the values a user may type at the prompt
DirAnswers == { <<".">>, <<"a">>, <<"b">> }

\* the prompt filters an answer and validates it; a rejected answer is asked
\* for again in place
TargetDirAnswerRejected ==
  /\ tdPc = "prompting"
  /\ tdAttempts < MaxAttempts
  /\ \E answer \in DirAnswers :
       LET dir == Resolve(Cwd, answer)
           v == Validate(tdFs, dir, tdForce)
       IN  /\ ~v.ok
           /\ tdFs' = v.fs
           /\ tdCalls' = Append(tdCalls, Call(tdFs, dir, v))
  /\ tdAttempts' = tdAttempts + 1
  /\ UNCHANGED <<tdForce, tdDir, tdPc, tdTargetDir, tdPrompts, log, rtVars, avVars, pfVars, piVars>>

\* the prompt resolves with an answer validate accepted: targetDir = answer.dir
TargetDirAnswerAccepted ==
  /\ tdPc = "prompting"
  /\ \E answer \in DirAnswers :
       LET dir == Resolve(Cwd, answer)
           v == Validate(tdFs, dir, tdForce)
       IN  /\ v.ok
           /\ tdFs' = v.fs
           /\ tdCalls' = Append(tdCalls, Call(tdFs, dir, v))
           /\ tdTargetDir' = dir
           /\ log' = log \o ValidateLog(v) \o <<"target dir is">>
  /\ tdPc' = "returned"
  /\ UNCHANGED <<tdForce, tdDir, tdPrompts, tdAttempts, rtVars, avVars, pfVars, piVars>>

\* what may lie at a child of the working directory
ChildKinds == { "missing", "file", "empty", "hidden", "visible", "both" }

\* the file system with the children a and b of the working directory of the
\* given kinds, and a .git in the working directory or not
MakeFs(ka, kb, git) ==
  LET under(name, k) ==
        IF k = "missing" THEN {}
        ELSE { <<Cwd \o <<"/">> \o name, IF k = "file" THEN "file" ELSE "dir">> }
             \cup (IF k \in { "hidden", "both" }
                   THEN { <<Cwd \o <<"/">> \o name \o <<"/", ".", "h">>, "file">> } ELSE {})
             \cup (IF k \in { "visible", "both" }
                   THEN { <<Cwd \o <<"/">> \o name \o <<"/", "x">>, "file">> } ELSE {})
      nodes == { <<Cwd, "dir">> } \cup under(<<"a">>, ka) \cup under(<<"b">>, kb)
                 \cup (IF git THEN { <<Cwd \o <<"/", ".", "g", "i", "t">>, "dir">> } ELSE {})
  IN  [p \in { n[1] : n \in nodes } |-> (CHOOSE n \in nodes : n[1] = p)[2]]

TDInit ==
  /\ RTOff
  /\ AVOff
  /\ PFOff
  /\ PIOff
  /\ log = <<>>
  /\ tdFs \in { MakeFs(ka, kb, git) : ka \in ChildKinds, kb \in ChildKinds, git \in BOOLEAN }
  /\ tdForce \in BOOLEAN
  /\ tdDir \in { <<>>, <<"a">>, <<"b">> }
  /\ tdPc = "start"
  /\ tdTargetDir = <<>>
  /\ tdPrompts = 0
  /\ tdAttempts = 0
  /\ tdCalls = <<>>

TDNext ==
  \/ GetTargetDirectory
  \/ TargetDirAnswerRejected
  \/ TargetDirAnswerAccepted

SpecTD == TDInit /\ [][TDNext]_vars

OverrideWarnings ==
  Cardinality({ i \in DOMAIN log :
                  log[i] = "already exists and will be override due to --force" })

\* C9: validate creates and accepts a missing path, rejects an existing path
\* that is not a directory, accepts a directory without non-hidden entries,
\* and rejects a directory with a non-hidden entry unless force is set, when it
\* accepts it and logs the override warning; the prompt is issued exactly when
\* the first validation rejects, and the directory returned is one validate
\* accepted.
C9_TargetDirValidation ==
  /\ \A i \in DOMAIN tdCalls :
       LET c == tdCalls[i]
       IN  /\ c.was = "missing" => c.ok
           /\ c.was = "file" => ~c.ok
           /\ (c.was = "dir" /\ c.visible = {}) => c.ok
           /\ (c.was = "dir" /\ c.visible # {}) => (c.ok <=> tdForce)
           /\ c.ok => (c.dir \in DOMAIN tdFs /\ tdFs[c.dir] = "dir")
  /\ OverrideWarnings =
       Cardinality({ i \in DOMAIN tdCalls :
                       tdCalls[i].ok /\ tdCalls[i].was = "dir" /\ tdCalls[i].visible # {} })
  /\ tdPc # "start" =>
       /\ tdCalls # <<>>
       /\ tdPrompts = (IF tdCalls[1].ok THEN 0 ELSE 1)
       /\ tdCalls[1].dir = Resolve(Cwd, tdDir)
  /\ tdPc = "prompting" => \A i \in DOMAIN tdCalls : ~tdCalls[i].ok
  /\ tdPc = "returned" =>
       /\ tdCalls[Len(tdCalls)].ok
       /\ tdCalls[Len(tdCalls)].dir = tdTargetDir
       /\ \A i \in 1..(Len(tdCalls) - 1) : ~tdCalls[i].ok

\* the directory given holds a visible entry and force is unset, so the prompt
\* is issued; an answer naming a file is rejected, and the answer accepted in
\* the end names a path that did not exist and was created
C9_Witness ==
  /\ tdPc = "returned"
  /\ ~tdForce
  /\ tdPrompts = 1
  /\ Len(tdCalls) = 3
  /\ tdCalls[1].was = "dir" /\ tdCalls[1].visible # {}
  /\ tdCalls[2].was = "file"
  /\ tdCalls[3].was = "missing"
  /\ tdFs[tdTargetDir] = "dir"

-----------------------------------------------------------------------------
(* getPackageInfo and downloadBoilerplate                                  *)

\* the request this.curl(`${this.registryUrl}/${pkgName}/latest`, ...)
InfoRequest(pkgName) == [what |-> "latest", pkg |-> pkgName]

\* the request this.curl(tgzUrl, { streaming: true, followRedirect: true })
TarballRequest(pkgName) == [what |-> "tarball", pkg |-> pkgName]

\* result.data of a 200 response
RegistryData(pkgName) == [from |-> "registry", name |-> pkgName]

\* require(`${pkgName}/package.json`) when the package is installed
LocalManifest(pkgName) == [from |-> "local", name |-> pkgName]

\* what the try block throws: the error of the request, or the assert's
Thrown(error) == [from |-> "thrown", name |-> error]

\* FetchFailed with a fault: only a failed request counts, not the status
FetchFailedRequestOnly(reply) == reply.kind # "response"

\* the try block throws: this.curl rejects (request error, timeout) or
\* `assert(result.status === 200, ...)` fails
FetchFailed(reply) == reply.kind # "response" \/ reply.status # 200

FetchError(reply) ==
  IF reply.kind # "response" THEN reply.kind ELSE "AssertionError"

\* the withFallback argument of `this.getPackageInfo(pkgName, false)`
DownloadWithFallback == FALSE

\* getPackageInfo(pkgName, withFallback), called by itself, up to `await this.curl`
GetPackageInfo ==
  /\ piCaller = "direct"
  /\ piPc = "idle"
  /\ log' = Append(log, "fetching npm info")
  /\ dlRequests' = Append(dlRequests, InfoRequest(piPkgName))
  /\ piPc' = "fetching"
  /\ UNCHANGED <<piPkgName, piWithFallback, piCaller, piReply, piLocal, piResult,
                 piRequired, dlPc, dlSaveDir, rtVars, avVars, pfVars, tdVars>>

\* downloadBoilerplate(pkgName) up to the `await this.curl` of getPackageInfo
DownloadBoilerplate ==
  /\ piCaller = "downloadBoilerplate"
  /\ dlPc = "idle"
  /\ piPc = "idle"
  /\ piWithFallback' = DownloadWithFallback
  /\ log' = Append(log, "fetching npm info")
  /\ dlRequests' = Append(dlRequests, InfoRequest(piPkgName))
  /\ piPc' = "fetching"
  /\ dlPc' = "waiting"
  /\ UNCHANGED <<piPkgName, piCaller, piReply, piLocal, piResult, piRequired,
                 dlSaveDir, rtVars, avVars, pfVars, tdVars>>

\* the request succeeded with status 200: return result.data
GetPackageInfoReturn ==
  /\ piPc = "fetching"
  /\ ~FetchFailed(piReply)
  /\ piResult' = RegistryData(piPkgName)
  /\ piPc' = "returned"
  /\ UNCHANGED <<piPkgName, piWithFallback, piCaller, piReply, piLocal, piRequired,
                 dlPc, dlSaveDir, dlRequests, log, rtVars, avVars, pfVars, tdVars>>

\* catch (err) with withFallback: return require(`${pkgName}/package.json`)
GetPackageInfoFallback ==
  /\ piPc = "fetching"
  /\ FetchFailed(piReply)
  /\ piWithFallback
  /\ log' = Append(log, "use fallback")
  /\ piRequired' = Append(piRequired, piPkgName)
  /\ IF piPkgName \in piLocal
     THEN /\ piResult' = LocalManifest(piPkgName)
          /\ piPc' = "returned"
     ELSE /\ piResult' = Thrown("MODULE_NOT_FOUND")
          /\ piPc' = "thrown"
  /\ UNCHANGED <<piPkgName, piWithFallback, piCaller, piReply, piLocal,
                 dlPc, dlSaveDir, dlRequests, rtVars, avVars, pfVars, tdVars>>

\* catch (err) without withFallback: throw err
GetPackageInfoRethrow ==
  /\ piPc = "fetching"
  /\ FetchFailed(piReply)
  /\ ~piWithFallback
  /\ piResult' = Thrown(FetchError(piReply))
  /\ piPc' = "thrown"
  /\ UNCHANGED <<piPkgName, piWithFallback, piCaller, piReply, piLocal, piRequired,
                 dlPc, dlSaveDir, dlRequests, log, rtVars, avVars, pfVars, tdVars>>

\* `await this.getPackageInfo(pkgName, false)` threw: downloadBoilerplate throws
DownloadBoilerplateThrows ==
  /\ dlPc = "waiting"
  /\ piPc = "thrown"
  /\ dlPc' = "thrown"
  /\ UNCHANGED <<piPkgName, piWithFallback, piCaller, piReply, piLocal, piPc, piResult,
                 piRequired, dlSaveDir, dlRequests, log, rtVars, avVars, pfVars, tdVars>>

\* getPackageInfo returned: up to `await rimraf(saveDir)`
DownloadBoilerplatePurge ==
  /\ dlPc = "waiting"
  /\ piPc = "returned"
  /\ log' = Append(log, "downloading")
  /\ dlSaveDir' = "absent"
  /\ dlPc' = "purged"
  /\ UNCHANGED <<piPkgName, piWithFallback, piCaller, piReply, piLocal, piPc, piResult,
                 piRequired, dlRequests, rtVars, avVars, pfVars, tdVars>>

\* `await this.curl(tgzUrl, ...)`
DownloadBoilerplateFetch ==
  /\ dlPc = "purged"
  /\ dlRequests' = Append(dlRequests, TarballRequest(piPkgName))
  /\ dlPc' = "downloaded"
  /\ UNCHANGED <<piPkgName, piWithFallback, piCaller, piReply, piLocal, piPc, piResult,
                 piRequired, dlSaveDir, log, rtVars, avVars, pfVars, tdVars>>

\* `await compressing.tgz.uncompress(response.res, saveDir)` and the return
DownloadBoilerplateExtract ==
  /\ dlPc = "downloaded"
  /\ dlSaveDir' = "extracted"
  /\ log' = Append(log, "extract to")
  /\ dlPc' = "returned"
  /\ UNCHANGED <<piPkgName, piWithFallback, piCaller, piReply, piLocal, piPc, piResult,
                 piRequired, dlRequests, rtVars, avVars, pfVars, tdVars>>

\* the packages of the model
PkgNames == { <<"c", "f", "g">>, <<"t", "p", "l">> }

\* what the registry request may do
Replies ==
  { [kind |-> "RequestError", status |-> 0],
    [kind |-> "ResponseTimeoutError", status |-> 0] }
  \cup { [kind |-> "response", status |-> st] : st \in { 200, 201, 304, 404, 500 } }

PIInit ==
  /\ RTOff
  /\ AVOff
  /\ PFOff
  /\ TDOff
  /\ log = <<>>
  /\ piPkgName \in PkgNames
  /\ piCaller \in { "direct", "downloadBoilerplate" }
  /\ piWithFallback \in (IF piCaller = "direct" THEN BOOLEAN ELSE { FALSE })
  /\ piReply \in Replies
  /\ piLocal \in SUBSET PkgNames
  /\ piPc = "idle"
  /\ piResult = [from |-> "none", name |-> <<>>]
  /\ piRequired = <<>>
  /\ dlPc = "idle"
  /\ dlSaveDir \in { "stale", "absent" }
  /\ dlRequests = <<>>

PINext ==
  \/ GetPackageInfo
  \/ DownloadBoilerplate
  \/ GetPackageInfoReturn
  \/ GetPackageInfoFallback
  \/ GetPackageInfoRethrow
  \/ DownloadBoilerplateThrows
  \/ DownloadBoilerplatePurge
  \/ DownloadBoilerplateFetch
  \/ DownloadBoilerplateExtract

SpecPI == PIInit /\ [][PINext]_vars

\* the fetch failed as the claim counts it: the request failed or timed out,
\* or the response has a status other than 200
Failure == piReply.kind # "response" \/ piReply.status # 200

-----------------------------------------------------------------------------
(* Claims about replaceTemplate (checked under SpecRT)                     *)

\* s[i..j] is one whole placeholder: `{{`, spaces, a name, spaces, `}}`
IsTokenAt(s, i, j) ==
  /\ j - i >= 4
  /\ s[i] = "{" /\ s[i + 1] = "{" /\ s[j - 1] = "}" /\ s[j] = "}"
  /\ \A k \in (i + 2)..(j - 2) : s[k] = " " \/ s[k] \in WordChar
  /\ \E k \in (i + 2)..(j - 2) : s[k] \in WordChar
  /\ \A k \in (i + 2)..(j - 2) :
       s[k] = " " =>
         \/ \A l \in (i + 2)..k : s[l] = " "
         \/ \A l \in k..(j - 2) : s[l] = " "

IsWordChar(c) == c \in WordChar

\* the name of the placeholder t
TokenName(t) == SelectSeq(t, IsWordChar)

Before(s, i) == SubSeq(s, 1, i - 1)
After(s, j) == SubSeq(s, j + 1, Len(s))

\* the occurrences s[i..j] of a placeholder in s
Tokens(s) ==
  { ij \in (1..Len(s)) \X (1..Len(s)) : IsTokenAt(s, ij[1], ij[2]) }

Escaped(s, ij) == ij[1] > 1 /\ s[ij[1] - 1] = BS

C4_SubstituteOrVerbatim ==
  rtPc # "input" =>
    \A ij \in Tokens(rtContent) :
      ~Escaped(rtContent, ij) =>
        LET tok == SubSeq(rtContent, ij[1], ij[2])
            key == TokenName(tok)
        IN  rtOut = replaceTemplate(Before(rtContent, ij[1]), rtScope)
                      \o (IF key \in DOMAIN rtScope THEN rtScope[key] ELSE tok)
                      \o replaceTemplate(After(rtContent, ij[2]), rtScope)

\* a placeholder with interior spaces whose name is missing from a scope that
\* has other keys, left as it is
C4_Witness ==
  /\ rtPc = "once"
  /\ rtScope # << >>
  /\ \E ij \in Tokens(rtContent) :
       /\ ~Escaped(rtContent, ij)
       /\ TokenName(SubSeq(rtContent, ij[1], ij[2])) \notin DOMAIN rtScope
       /\ ij[2] - ij[1] + 1 > Len(TokenName(SubSeq(rtContent, ij[1], ij[2]))) + 4
       /\ rtOut = rtContent

\* s contains the two characters `\{` followed by `{`
HasEscapeSequence(s) ==
  \E i \in 1..Len(s) : i + 2 <= Len(s) /\ s[i] = BS /\ s[i + 1] = "{" /\ s[i + 2] = "{"

\* C5 as stated: for every scope, a content without `\{{` is a fixed point after
\* one application, also when values of the scope contain placeholder syntax.
C5_IdempotentAsStated ==
  (rtPc = "twice" /\ ~HasEscapeSequence(rtContent)) => rtOut2 = rtOut

\* every resolvable placeholder of s is resolved: s holds no escaped
\* placeholder and no placeholder whose name is a key of the scope
Settled(s, scope) ==
  \A ij \in Tokens(s) :
    /\ ~Escaped(s, ij)
    /\ TokenName(SubSeq(s, ij[1], ij[2])) \notin DOMAIN scope

\* C5 amended: once the result of the first application holds no escaped
\* placeholder and no placeholder naming a key of the scope, applying the
\* substitution again changes nothing.
C5_IdempotentOnceSettled ==
  (rtPc = "twice" /\ Settled(rtOut, rtScope)) => rtOut2 = rtOut

\* a substitution happened, its result holds a placeholder (from a value) that
\* the scope cannot resolve, and the second application was made
C5_Witness ==
  /\ rtPc = "twice"
  /\ rtOut # rtContent
  /\ Tokens(rtOut) # {}
  /\ Settled(rtOut, rtScope)

-----------------------------------------------------------------------------
(* Claims about processFiles (checked under SpecPF)                        *)

WrittenTo == { pfWrites[i].to : i \in DOMAIN pfWrites }

\* C1 as stated: when processFiles has returned the destination tree holds
\* exactly one output file per input file, and no two distinct source files
\* were written to the same destination path.
C1_OneOutputPerInput ==
  pfPc = "done" =>
    /\ Cardinality(DOMAIN pfDest) = Len(pfTemplate)
    /\ \A i, j \in DOMAIN pfWrites : i # j => pfWrites[i].to # pfWrites[j].to

\* C1 amended: when processFiles has returned, every enumerated source path
\* has been written exactly once, to the one destination path computed from it,
\* in enumeration order; the destination tree holds the written paths, at most
\* one per input file, and where two source files share a destination path the
\* later write is the one that stays.
C1_EachFileWrittenOnce ==
  pfPc = "done" =>
    /\ pfReturned = [i \in DOMAIN pfTemplate |-> pfTemplate[i].path]
    /\ Len(pfWrites) = Len(pfTemplate)
    /\ \A i \in DOMAIN pfWrites :
         /\ pfWrites[i].from = pfTemplate[i].path
         /\ pfWrites[i].to = DestPath(avTargetDir, pfTemplate[i].path, pfLocals)
    /\ DOMAIN pfDest = WrittenTo
    /\ Cardinality(DOMAIN pfDest) <= Len(pfTemplate)
    /\ \A i \in DOMAIN pfWrites :
         (\A j \in DOMAIN pfWrites : j > i => pfWrites[j].to # pfWrites[i].to)
           => pfDest[pfWrites[i].to] = pfWrites[i].bytes

\* two aliases of .gitignore in one template, both written to .gitignore
C1_Witness ==
  /\ pfPc = "done"
  /\ Len(pfWrites) = 2
  /\ pfWrites[1].from # pfWrites[2].from
  /\ pfWrites[1].to = pfWrites[2].to
  /\ pfWrites[1].to = JoinPath(avTargetDir, <<".", "g", "i", "t", "i", "g", "n", "o", "r", "e">>)
  /\ pfWrites[1].bytes # pfWrites[2].bytes
  /\ Cardinality(DOMAIN pfDest) = 1

\* C2: a file the classifier reports as binary is written with the bytes of
\* the source; a file it reports as text is written as replaceTemplate of the
\* UTF-8 decoding of the source against the scope askForVariable returned
\* before the walk, which does not change during the walk.
C2_BinaryCopiedTextSubstituted ==
  pfPc \in { "walk", "done" } =>
    /\ pfLocals = avResult
    /\ \A i \in DOMAIN pfWrites :
         LET entry == pfTemplate[i]
         IN  pfWrites[i].bytes =
               IF entry.isText
               THEN EncodeUtf8(replaceTemplate(DecodeUtf8(entry.bytes), avResult))
               ELSE entry.bytes

\* a binary file holding a placeholder the scope resolves, copied as it is,
\* beside a text file whose placeholder was substituted
C2_Witness ==
  /\ pfPc = "done"
  /\ <<"x">> \in DOMAIN pfLocals
  /\ \E i, j \in DOMAIN pfWrites :
       /\ ~pfTemplate[i].isText
       /\ Tokens(pfTemplate[i].bytes) # {}
       /\ pfWrites[i].bytes = pfTemplate[i].bytes
       /\ pfTemplate[j].isText
       /\ Tokens(pfTemplate[j].bytes) # {}
       /\ pfWrites[j].bytes # pfTemplate[j].bytes

\* C6: the destination path of a source path p is the table value when p is
\* one of the keys of the table and p itself for every other p, passed through
\* the placeholder substitution against the scope.
C6_TableOrPassThrough ==
  \A i \in DOMAIN pfWrites :
    LET p == pfWrites[i].from
        mapped == IF p \in DOMAIN FileMapping THEN FileMapping[p] ELSE p
    IN  pfWrites[i].to = JoinPath(avTargetDir, replaceTemplate(mapped, pfLocals))

WarningsLogged ==
  Cardinality({ i \in DOMAIN log : log[i] = "load boilerplate config got trouble" })

\* C8: when loading the questions fails, askForVariable returns the empty scope
\* without prompting, logs a warning exactly when the failure is not
\* module-not-found, and processFiles goes on to write every template file
\* with the empty scope.
C8_LoadFailureContinues ==
  avLoad # "ok" =>
    /\ avPc \in { "idle", "returned" }
    /\ avPrompted = <<>>
    /\ avPc = "returned" =>
         /\ avResult = EmptyScope
         /\ WarningsLogged = (IF avLoad = "notFound" THEN 0 ELSE 1)
    /\ pfPc \in { "walk", "done" } => pfLocals = EmptyScope
    /\ pfPc = "done" =>
         /\ Len(pfWrites) = Len(pfTemplate)
         /\ \A i \in DOMAIN pfWrites :
              /\ pfWrites[i].from = pfTemplate[i].path
              /\ pfWrites[i].to = DestPath(avTargetDir, pfTemplate[i].path, EmptyScope)
              /\ pfWrites[i].bytes = FileResult(pfTemplate[i], EmptyScope)

\* a load failure that is not module-not-found, warned about, after which two
\* files were written, a placeholder left as it is
C8_Witness ==
  /\ avLoad = "error"
  /\ pfPc = "done"
  /\ WarningsLogged = 1
  /\ Len(pfWrites) = 2
  /\ \E i \in DOMAIN pfWrites :
       /\ pfTemplate[i].isText
       /\ Tokens(pfTemplate[i].bytes) # {}
       /\ pfWrites[i].bytes = pfTemplate[i].bytes

=============================================================================
